---- MODULE Spec2Model ----
(***************************************************************************)
(* A model of the file organization engine of file-organizer:              *)
(* core/file_organizer.py (FileOrganizer) driven by the rule list and the  *)
(* backup flag of core/config.py (Config), with the pre-organize call to   *)
(* core/backup_manager.py (BackupManager.create_backup), and of the        *)
(* backup manager itself: create, restore, delete and cleanup of the       *)
(* archives and metadata records in its backup directory.  Further parts:  *)
(* the rule methods of Config, the loop thread of core/scheduler.py        *)
(* (Scheduler) and the editor of gui/rules_manager.py                      *)
(* (RulesManagerWindow).                                                   *)
(*                                                                         *)
(* The organized directory is a set of direct files plus the sub-folders   *)
(* the rules name; a file is a (name, id) pair, the id standing for its    *)
(* content.  A name is kept as <stem base, numeric suffixes, extension>,   *)
(* so that stem_1.ext is the name with 1 appended to the suffixes.         *)
(***************************************************************************)
EXTENDS Integers, Sequences, FiniteSets, TLC

\* ------------------------------------------------------------------ bounds
\* the longest rule list the configuration is driven to
MaxRules == 3
\* the number of files ever dropped into the directory
MaxFiles == 3
\* the last tick of the clock
MaxClock == 3
\* the number of loop threads a Scheduler is driven to start
MaxThreads == 3

\* ------------------------------------------------------------------ state
VARIABLES
    rules,                   \* Config._config.organization_rules (a list)
    backup_before_organize,  \* Config._config.backup_before_organize
    progress_callback,       \* FileOrganizer.progress_callback
    directory,               \* the directory tree being organized
    nextId,                  \* the content of the next file dropped in
    pc,                      \* where organize_directory is
    dry_run,                 \* its dry_run argument
    files,                   \* the part of `files` (line 86) not yet visited
    index,                   \* enumerate's i (the number of iterations begun)
    total_files,             \* len(files), line 87
    stats,                   \* FileOrganizer.stats
    run,                     \* what happened in this call and what the call
                             \* before it left behind (history)
    backup_dir,              \* BackupManager.backup_dir: archives and metadata
    clock,                   \* datetime.now(), in ticks
    bm,                      \* the last call of the BackupManager (history)
    cfg,                     \* the calls of the Config rule methods (history)
    sched,                   \* the Scheduler: its fields and its loop threads
    gui                      \* the rules manager window: editor mode, selection

vars == <<rules, backup_before_organize, progress_callback, directory, nextId,
          pc, dry_run, files, index, total_files, stats, run,
          backup_dir, clock, bm, cfg, sched, gui>>

\* the state of the organizer and its configuration
organizer_vars == <<rules, backup_before_organize, progress_callback, nextId,
                    pc, dry_run, files, index, total_files, stats, run>>

\* the state of the backup manager
backup_vars == <<backup_dir, clock, bm>>

\* ------------------------------------------------------------------ names
\* str.lower() on the extensions the model uses
Lower(ext) ==
    CASE ext = ".PNG" -> ".png"
      [] ext = ".TXT" -> ".txt"
      [] OTHER -> ext

Name(base, ext) == [base |-> base, sfx |-> <<>>, ext |-> ext]

\* the files a user may drop into the directory: an image, a text file with
\* an upper-case extension, and one without extension whose name is the name
\* of a rule's target folder
DropNames == {Name("a", ".png"), Name("c", ".TXT"), Name("Images", "")}

\* the directory entry a folder name occupies
FolderEntry(folder) == Name(folder, "")

Folders == {"Images", "Pics"}

\* OrganizationRule(name, file_extensions, target_folder, enabled)
Rule(name, exts, target, enabled) ==
    [name |-> name, file_extensions |-> exts, target_folder |-> target, enabled |-> enabled]

Images(en) == Rule("Images", <<".png">>, "Images", en)
Pics(en) == Rule("Pics", <<".PNG", ".txt">>, "Pics", en)

\* the rules the configuration is given
RuleUniverse ==
    { Images(en) : en \in BOOLEAN } \cup { Pics(en) : en \in BOOLEAN }

\* the rule lists the engine is run with
RuleConfigs ==
    {<<>>} \cup { <<r>> : r \in RuleUniverse }
           \cup { <<r1, r2>> : r1 \in RuleUniverse, r2 \in RuleUniverse }

Callbacks == {"none", "three_arg", "two_arg"}

NoStats == [files_processed |-> 0, files_moved |-> 0, files_skipped |-> 0, errors |-> 0]

EmptyDir == [files |-> {}, dirs |-> {}, sub |-> [d \in Folders |-> {}]]

NamesOf(entries) == { e.name : e \in entries }

Min(S) == CHOOSE x \in S : \A y \in S : x <= y

\* ------------------------------------------------------------------ matching
\* _find_matching_rule: the position (0 for None) of the first rule whose
\* lower-cased extension list holds the file's lower-cased suffix
FindMatchingRule(rs, name) ==
    LET file_extension == Lower(name.ext)
        hits == { i \in 1..Len(rs) :
                    \E j \in 1..Len(rs[i].file_extensions) :
                        Lower(rs[i].file_extensions[j]) = file_extension }
    IN  IF hits = {} THEN 0 ELSE Min(hits)

\* ------------------------------------------------------------------ moving
RECURSIVE UniqueFrom(_, _, _)
UniqueFrom(name, taken, counter) ==
    LET new_name == [name EXCEPT !.sfx = Append(@, counter)]
    IN  IF new_name \notin taken THEN new_name
        ELSE UniqueFrom(name, taken, counter + 1)

\* (mutant) _get_unique_filename without its loop: the first candidate name,
\* free or not
GetFirstCandidate(name, taken) == [name EXCEPT !.sfx = Append(@, 1)]

\* _get_unique_filename
GetUniqueFilename(name, taken) ==
    IF name \notin taken THEN name ELSE UniqueFrom(name, taken, 1)

\* what the filesystem does to one move: nothing wrong, or shutil.move raising
\* (permission denied) after the folder was made
IOOutcomes == {"ok", "move_fails"}

\* Path.mkdir(exist_ok=True) raises FileExistsError when the folder's name is
\* taken by a direct file
Blocked(d, rule) == FolderEntry(rule.target_folder) \in NamesOf(d.files)

\* the non-dry path of _move_file (lines 129-148) on directory d:
\* [ok |-> its return value, dir |-> d afterwards]
RealMove(d, file, rule, io) ==
    LET folder == rule.target_folder
        mkdir_raises == Blocked(d, rule)
        dirs1 == d.dirs \cup {folder}
        taken == IF folder \in d.dirs THEN NamesOf(d.sub[folder]) ELSE {}
        target_name == IF file.name \in taken
                       THEN GetUniqueFilename(file.name, taken)
                       ELSE file.name
    IN  IF mkdir_raises THEN [ok |-> FALSE, dir |-> d]
        ELSE IF io = "move_fails" THEN [ok |-> FALSE, dir |-> [d EXCEPT !.dirs = dirs1]]
        ELSE [ok |-> TRUE,
              dir |-> [files |-> d.files \ {file},
                       dirs |-> dirs1,
                       \* shutil.move renames onto the target path
                       sub |-> [d.sub EXCEPT ![folder] =
                                   { e \in @ : e.name # target_name }
                                   \cup {[name |-> target_name, id |-> file.id]}]]]

\* (mutant) _move_file without its two tests of dry_run
MoveFileIgnoringDryRun(d, file, rule, dry, io) == RealMove(d, file, rule, io)

\* (mutant) _move_file whose dry-run branch falls off the end: returns None
MoveFileDryReturnsNone(d, file, rule, dry, io) ==
    IF dry THEN [ok |-> FALSE, dir |-> d] ELSE RealMove(d, file, rule, io)

\* _move_file: a dry run makes no folder, moves nothing and returns True
MoveFile(d, file, rule, dry, io) ==
    IF dry THEN [ok |-> TRUE, dir |-> d] ELSE RealMove(d, file, rule, io)

\* (mutant) a recursive walk in place of iterdir: the files of the
\* sub-folders too
ListFilesRecursive(d) == d.files \cup UNION { d.sub[x] : x \in d.dirs }

\* line 86: the direct children of the directory that are files
ListFiles(d) == d.files

\* ------------------------------------------------------------------ preview
\* one entry of the list preview_organization returns (lines 209-215), also
\* the record of one move of a run
PreviewEntry(file, rule) ==
    [file_name |-> file.name, target_folder |-> rule.target_folder,
     rule_name |-> rule.name]

\* (mutant) preview_organization without the rule.enabled test of line 208
PreviewAllMatched(d, rs) ==
    { PreviewEntry(f, rs[FindMatchingRule(rs, f.name)]) :
        f \in { g \in d.files : FindMatchingRule(rs, g.name) # 0 } }

\* preview_organization on an existing directory (lines 204-217): an entry
\* for every direct file whose rule (_find_matching_rule) exists and is enabled
PreviewOf(d, rs) ==
    { PreviewEntry(f, rs[FindMatchingRule(rs, f.name)]) :
        f \in { g \in d.files :
                  LET m == FindMatchingRule(rs, g.name)
                  IN  m # 0 /\ rs[m].enabled } }

\* ------------------------------------------------------------------ statistics
\* the keys files_by_rule can have: the rule names and "Uncategorized"
StatKeys == { r.name : r \in RuleUniverse } \cup {"Uncategorized"}

\* get_file_stats before its loop (lines 172-177); a key that is absent
\* counts 0
NoFileStats == [total_files |-> 0, files_by_rule |-> [k \in StatKeys |-> 0]]

\* lines 189-194: the key a file is counted under
StatKeyOf(rs, file) ==
    LET m == FindMatchingRule(rs, file.name)
    IN  IF m # 0 THEN rs[m].name ELSE "Uncategorized"

\* get_file_stats on an existing directory (lines 172-196)
FileStatsOf(d, rs) ==
    [total_files |-> Cardinality(d.files),
     files_by_rule |-> [k \in StatKeys |->
                          Cardinality({ f \in d.files : StatKeyOf(rs, f) = k })]]

\* ------------------------------------------------------------------ the run
\* no call of organize_directory is under way
Idle == pc \in {"idle", "done", "raised", "previewed", "preview_raised",
               "reported", "report_raised"}

\* what the directory_path argument names: the directory, nothing, or a
\* regular file
PathKinds == {"dir", "missing", "file"}

\* (mutant) line 56 without its is_dir test
PathExists(path) == path # "missing"

\* line 56: directory.exists() and directory.is_dir()
IsDirectory(path) == path = "dir"

\* the history of one call: the directory as the call found it, whether the
\* backup flag was set, the calls of create_backup (how many, whether the last
\* one returned, whether the directory was still as found), the moves that
\* raised (io_failed: those the filesystem failed, not the state of the
\* directory), the callback calls that raised, and what the call before it
\* was: a real run that ended clean (second), a dry run (dry_ref, its
\* files_moved); what its path argument named; the files it moved and those
\* whose move failed, each with its rule and folder; whether the call before
\* it was a preview_organization of the directory, and what that returned;
\* the argument tuples the progress callback was called with, in order; what
\* get_file_stats was called on and returned
NoRun == [snap |-> EmptyDir, backup |-> FALSE, backup_calls |-> 0,
          backup_ok |-> FALSE, backup_before |-> FALSE,
          failed_moves |-> 0, io_failed |-> 0, cb_raised |-> 0,
          second |-> FALSE, dry_ref |-> -1, path |-> "dir",
          moved |-> {}, failed |-> {}, previewed |-> FALSE, preview |-> {},
          calls |-> <<>>, stats_path |-> "dir", file_stats |-> NoFileStats]

\* (mutant) line 63 without its test of dry_run
NeedsBackupInDryRun(flag, dry) == flag

\* line 63: whether organize_directory calls _create_backup
NeedsBackup(flag, dry) == flag /\ ~dry

\* (mutant) _create_backup without its raise: the failure is only logged
AfterBackupSwallowed(created) == "process"

\* _create_backup (lines 74-82): log and re-raise what create_backup raises
AfterBackup(created) == IF created THEN "process" ELSE "raised"

\* (mutant) the callback given enumerate's zero-based i
ProgressArgsZeroBased(i, total, name) == <<i, total, name>>

\* line 95: the arguments of the progress callback in iteration i of enumerate
ProgressArgs(i, total, name) == <<i + 1, total, name>>

\* lines 94-95: whether the call of the progress callback raises.  A callback
\* of two parameters (cli_progress_callback, the test's) raises TypeError on
\* the three-argument call; a three-parameter one is caller code that may raise
CallbackRaises(cb, caller_raises) ==
    CASE cb = "none" -> FALSE
      [] cb = "two_arg" -> TRUE
      [] OTHER -> caller_raises

\* ------------------------------------------------------------------ backups
\* the ticks of datetime.now() within one second of the "%Y%m%d_%H%M%S" format
TicksPerSecond == 2

\* a backup name: a label, and for a timestamp-derived name its second
BackupName(label, ts) == [label |-> label, ts |-> ts]

\* a name the caller gives
Given(label) == BackupName(label, -1)

GivenNames == {Given("x")}

\* lines 39-40: backup_<now formatted down to the second>
DefaultName(now) == BackupName("backup", now \div TicksPerSecond)

\* every name a backup can have
BackupNames == GivenNames \cup { DefaultName(t) : t \in 0..(MaxClock - 1) }

NoName == BackupName("", -1)

\* the backup directory: the archives <name>.zip with their entries (and, as
\* history, the source tree they were made of and the time they were made
\* at) and the files <name>_metadata.json
EmptyBackupDir == [zips |-> {}, metas |-> {}]

HasZip(bd, name) == \E z \in bd.zips : z.name = name
HasMeta(bd, name) == \E m \in bd.metas : m.name = name
ZipOf(bd, name) == CHOOSE z \in bd.zips : z.name = name
MetaOf(bd, name) == CHOOSE m \in bd.metas : m.name = name

\* Path.unlink of the archive, of the metadata file
WithoutZip(bd, name) == [bd EXCEPT !.zips = { z \in @ : z.name # name }]
WithoutMeta(bd, name) == [bd EXCEPT !.metas = { m \in @ : m.name # name }]

\* (mutant) an archive of the direct files only
ArchiveOfDirectFiles(d) == { [path |-> <<f.name>>, id |-> f.id] : f \in d.files }

\* lines 49-53: os.walk over the source, every file written under its path
\* relative to the source
ArchiveOfDirectory(d) ==
    { [path |-> <<f.name>>, id |-> f.id] : f \in d.files }
    \cup UNION { { [path |-> <<FolderEntry(x), e.name>>, id |-> e.id] : e \in d.sub[x] } :
                   x \in d.dirs }

\* line 47: a source that is a file is written under its base name
ArchiveOfFile(f) == { [path |-> <<f.name>>, id |-> f.id] }

\* ZipFile.extractall (line 102): every entry written at its path under the
\* target, replacing what is there
ExtractAll(entries, target) ==
    { t \in target : \A e \in entries : e.path # t.path } \cup entries

\* where create_backup fails: nowhere, while the archive is written
\* (lines 45-53), or while the metadata is written (lines 66-67, the file
\* already opened)
CreateFailures == {"none", "archive", "metadata"}

\* lines 71-75: the archive, if there, is unlinked before the re-raise; the
\* metadata file is not looked at
ExceptCleanup(bd, name) == WithoutZip(bd, name)

\* lines 42-75: the backup directory after create_backup under name, now being
\* the value of datetime.now()
CreateBackupResult(bd, name, entries, source, type, now, fail) ==
    LET zip == [name |-> name, entries |-> entries, of |-> source, type |-> type,
                made |-> now]
        \* ZipFile(backup_path, 'w') replaces an archive of that name
        written == [bd EXCEPT !.zips = { z \in @ : z.name # name } \cup {zip}]
        metadata == [name |-> name, created_at |-> now, readable |-> TRUE]
        \* open(metadata_path, 'w') truncates; the dump did not complete
        partial == [name |-> name, created_at |-> -1, readable |-> FALSE]
        put(m) == [written EXCEPT !.metas = { x \in @ : x.name # name } \cup {m}]
    IN  CASE fail = "archive" -> ExceptCleanup(written, name)
          [] fail = "metadata" -> ExceptCleanup(put(partial), name)
          [] OTHER -> put(metadata)

\* what Path.unlink does in delete_backup: succeeds, or raises on the archive,
\* or raises on the metadata file
DeleteFailures == {"none", "archive_unlink", "metadata_unlink"}

\* (mutant) delete_backup without lines 150-151: the metadata file stays
DeleteArchiveOnly(bd, name, fail) ==
    IF HasZip(bd, name) /\ fail = "archive_unlink"
    THEN [ok |-> FALSE, raised |-> FALSE, unlink_raised |-> TRUE, dir |-> bd]
    ELSE [ok |-> TRUE, raised |-> FALSE, unlink_raised |-> FALSE, dir |-> WithoutZip(bd, name)]

\* delete_backup (lines 142-156): its return value, whether it raises, whether
\* an unlink raised inside it, and the backup directory afterwards
DeleteBackupResult(bd, name, fail) ==
    IF HasZip(bd, name) /\ fail = "archive_unlink"
    THEN [ok |-> FALSE, raised |-> FALSE, unlink_raised |-> TRUE, dir |-> bd]
    ELSE IF HasMeta(bd, name) /\ fail = "metadata_unlink"
    THEN [ok |-> FALSE, raised |-> FALSE, unlink_raised |-> TRUE, dir |-> WithoutZip(bd, name)]
    ELSE [ok |-> TRUE, raised |-> FALSE, unlink_raised |-> FALSE,
          dir |-> WithoutMeta(WithoutZip(bd, name), name)]

\* line 129: metadata.get("created_at", "Unknown"); as a sort key the string
\* "Unknown" lies above every ISO timestamp
Unknown == MaxClock + 1

CreatedAt(bd, name) ==
    IF HasMeta(bd, name) /\ MetaOf(bd, name).readable
    THEN MetaOf(bd, name).created_at ELSE Unknown

\* the names of the archives glob("*.zip") finds
ZipNames(bd) == { z.name : z \in bd.zips }

\* the orders in which glob("*.zip") can yield the archives
GlobOrders(bd) ==
    LET names == ZipNames(bd)
        n == Cardinality(names)
    IN  { order \in [1..n -> names] : \A i, j \in 1..n : order[i] = order[j] => i = j }

\* (mutant) the sort of line 139 without reverse=True
ListBackupsOldestFirst(bd) ==
    { order \in GlobOrders(bd) :
        \A i, j \in 1..Len(order) : i < j => CreatedAt(bd, order[i]) <= CreatedAt(bd, order[j]) }

\* list_backups (lines 109-140): the names of the archives sorted by
\* created_at, newest first; the sort is stable, so entries of equal key stay
\* in the order glob yielded them, which is any: the lists it can return
ListBackups(bd) ==
    { order \in GlobOrders(bd) :
        \A i, j \in 1..Len(order) : i < j => CreatedAt(bd, order[i]) >= CreatedAt(bd, order[j]) }

\* line 166: backups[keep_count:]
OldBackups(order, keep_count) == SubSeq(order, keep_count + 1, Len(order))

\* lines 165-170: delete_backup on each of the names in turn; the unlinks of
\* the names in failing raise (on the archive or on the metadata, by mode)
RECURSIVE DeleteEach(_, _, _, _)
DeleteEach(bd, names, failing, mode) ==
    IF names = <<>> THEN [deleted_count |-> 0, failed |-> 0, dir |-> bd]
    ELSE LET r == DeleteBackupResult(bd, Head(names),
                                     IF Head(names) \in failing THEN mode ELSE "none")
             rest == DeleteEach(r.dir, Tail(names), failing, mode)
         IN  [deleted_count |-> rest.deleted_count + (IF r.ok THEN 1 ELSE 0),
              failed |-> rest.failed + (IF r.ok THEN 0 ELSE 1),
              dir |-> rest.dir]

\* the targets restore_backup is given: a new empty directory, or one that
\* holds a file a.png already
RestoreTargets == { {}, { [path |-> <<Name("a", ".png")>>, id |-> 0] } }

\* the history of one call of the BackupManager: the operation and its name
\* argument (whether it was the default name), whether it raised, whether
\* create_backup had begun to write, what delete_backup returned and whether
\* an unlink raised in it, what cleanup_old_backups was asked to keep and
\* returned and how many of its deletions failed, the backup directory before
\* the call, the target of restore_backup before and after, the list
\* list_backups returned
NoCall == [op |-> "none", name |-> NoName, default |-> FALSE, raised |-> FALSE,
           started |-> FALSE, ok |-> FALSE, unlink_raised |-> FALSE,
           keep |-> 0, count |-> 0, failed |-> 0,
           before |-> EmptyBackupDir, target |-> {}, restored |-> {},
           listing |-> <<>>]

\* ---- Scheduler.__init__, lines 17-23: not running, no thread, the event
\* clear; enabled is config.scheduler.enabled, jobs the number of jobs the
\* schedule module holds. Each loop thread is at the test of its while
\* ("check"), in run_pending and the sleep after it ("sleep") or past the
\* loop ("stopped"); stale tells that stop() was called since it started,
\* polled_stale that it has called run_pending since then.
NoScheduler(enabled) ==
    [running |-> FALSE, stop_event |-> FALSE, enabled |-> enabled,
     jobs |-> 0, threads |-> <<>>]

NewThread == [at |-> "check", stale |-> FALSE, polled_stale |-> FALSE]

\* ---- RulesManagerWindow.__init__, lines 18-41: the tree shows the rules,
\* nothing is selected, Save and Cancel are disabled, and the window has no
\* attribute current_rule_name (NoAttribute). The history: the last handler,
\* the mode the editor was in when Save was pressed, whether the rule was
\* saved, and the rule list before.
NoAttribute == "<no attribute>"

NoWindow ==
    [mode |-> "none", selection |-> 0, current_rule_name |-> NoAttribute,
     op |-> "none", saved_in |-> "none", saved |-> FALSE, before |-> <<>>]

\* the history of the rule methods of Config: the last call and its name
\* argument, what get_organization_rule returned, the rule list before a
\* remove_organization_rule, the names added and not removed since, whether
\* the call was the add_organization_rule of a replacement (the call before
\* it removed that name) and the rule list before that removal
ConfigHistory(rs) ==
    [op |-> "none", name |-> "", result |-> 0, before |-> <<>>,
     live |-> { rs[i].name : i \in 1..Len(rs) },
     replaced |-> FALSE, replace_before |-> <<>>]

Init ==
    /\ backup_dir = EmptyBackupDir
    /\ clock = 0
    /\ bm = NoCall
    /\ rules \in RuleConfigs
    /\ backup_before_organize \in BOOLEAN
    /\ progress_callback \in Callbacks
    /\ directory = EmptyDir
    /\ nextId = 1
    /\ pc = "idle"
    /\ dry_run = FALSE
    /\ files = {}
    /\ index = 0
    /\ total_files = 0
    /\ stats = NoStats
    /\ run = NoRun
    /\ cfg = ConfigHistory(rules)
    /\ sched = NoScheduler(FALSE)
    /\ gui = NoWindow

\* get_organization_rule (lines 194-199): the position of the first rule of
\* the name, 0 for None
GetOrganizationRuleResult(rs, rule_name) ==
    LET hits == { i \in 1..Len(rs) : rs[i].name = rule_name }
    IN  IF hits = {} THEN 0 ELSE Min(hits)

\* the history after add_organization_rule(rule) on the list rs: the call is
\* the second half of a replacement when the call before it removed the name
AfterAdd(c, rs, rule) ==
    LET replaced == c.op = "remove" /\ c.name = rule.name
    IN  [c EXCEPT !.op = "add", !.name = rule.name, !.result = 0,
                  !.before = <<>>,
                  !.live = @ \cup {rule.name},
                  !.replaced = replaced,
                  !.replace_before = IF replaced THEN c.before ELSE <<>>]

\* the history after remove_organization_rule(rule_name) on the list rs
AfterRemove(c, rs, rule_name) ==
    [c EXCEPT !.op = "remove", !.name = rule_name, !.result = 0,
              !.before = rs,
              !.live = @ \ {rule_name},
              !.replaced = FALSE,
              !.replace_before = <<>>]

\* the history after get_organization_rule(rule_name) on the list rs
AfterGet(c, rs, rule_name) ==
    [c EXCEPT !.op = "get", !.name = rule_name,
              !.result = GetOrganizationRuleResult(rs, rule_name),
              !.before = <<>>,
              !.replaced = FALSE,
              !.replace_before = <<>>]

\* ---- the environment: the user drops a file into the directory
AddFile(name) ==
    /\ pc = "idle"
    /\ nextId <= MaxFiles
    /\ name \notin NamesOf(directory.files)
    /\ \A d \in directory.dirs : name # FolderEntry(d)
    /\ directory' = [directory EXCEPT !.files = @ \cup {[name |-> name, id |-> nextId]}]
    /\ nextId' = nextId + 1
    /\ UNCHANGED <<rules, backup_before_organize, progress_callback, pc, dry_run,
                   files, index, total_files, stats, run>>
    /\ UNCHANGED backup_vars
    /\ UNCHANGED cfg
    /\ UNCHANGED <<sched, gui>>

\* ---- Config.add_organization_rule
AddOrganizationRule(rule) ==
    /\ pc = "idle"
    /\ Len(rules) < MaxRules
    /\ rules' = Append(rules, rule)
    /\ cfg' = AfterAdd(cfg, rules, rule)
    /\ UNCHANGED <<backup_before_organize, progress_callback, directory, nextId, pc,
                   dry_run, files, index, total_files, stats, run>>
    /\ UNCHANGED backup_vars
    /\ UNCHANGED <<sched, gui>>

\* (mutant) remove_organization_rule taking out the first rule of the name only
RemoveFirstOrganizationRule(rule_name) ==
    /\ pc = "idle"
    /\ LET i == GetOrganizationRuleResult(rules, rule_name)
       IN  rules' = IF i = 0 THEN rules
                    ELSE SubSeq(rules, 1, i - 1) \o SubSeq(rules, i + 1, Len(rules))
    /\ cfg' = AfterRemove(cfg, rules, rule_name)
    /\ UNCHANGED <<backup_before_organize, progress_callback, directory, nextId, pc,
                   dry_run, files, index, total_files, stats, run>>
    /\ UNCHANGED backup_vars
    /\ UNCHANGED <<sched, gui>>

\* ---- Config.remove_organization_rule
RemoveOrganizationRule(rule_name) ==
    /\ pc = "idle"
    /\ rules' = SelectSeq(rules, LAMBDA r : r.name # rule_name)
    /\ cfg' = AfterRemove(cfg, rules, rule_name)
    /\ UNCHANGED <<backup_before_organize, progress_callback, directory, nextId, pc,
                   dry_run, files, index, total_files, stats, run>>
    /\ UNCHANGED backup_vars
    /\ UNCHANGED <<sched, gui>>

\* ---- Config.get_organization_rule
GetOrganizationRule(rule_name) ==
    /\ pc = "idle"
    /\ cfg' = AfterGet(cfg, rules, rule_name)
    /\ UNCHANGED <<rules, backup_before_organize, progress_callback, directory, nextId, pc,
                   dry_run, files, index, total_files, stats, run>>
    /\ UNCHANGED backup_vars
    /\ UNCHANGED <<sched, gui>>

\* ---- Config.update_config(backup_before_organize=flag)
UpdateConfig(flag) ==
    /\ pc = "idle"
    /\ backup_before_organize' = flag
    /\ UNCHANGED <<rules, progress_callback, directory, nextId, pc, dry_run, files,
                   index, total_files, stats, run>>
    /\ UNCHANGED backup_vars
    /\ UNCHANGED cfg
    /\ UNCHANGED <<sched, gui>>

\* the call that just returned ran to its end with no exception caught
CleanRun == pc = "done" /\ run.failed_moves = 0 /\ run.cb_raised = 0
CleanRealRun == CleanRun /\ ~dry_run
CleanDryRun == pc = "done" /\ run.cb_raised = 0 /\ dry_run

\* ---- preview_organization: [] for a path that does not exist (line 201);
\* iterdir raises NotADirectoryError on a regular file (line 205)
PreviewOrganization(path) ==
    /\ pc = "idle"
    /\ pc' = IF path = "file" THEN "preview_raised" ELSE "previewed"
    /\ run' = [NoRun EXCEPT !.previewed = (path = "dir"),
                            !.preview = IF path = "dir"
                                        THEN PreviewOf(directory, rules) ELSE {}]
    /\ UNCHANGED <<rules, backup_before_organize, progress_callback, directory, nextId,
                   dry_run, files, index, total_files, stats>>
    /\ UNCHANGED backup_vars
    /\ UNCHANGED cfg
    /\ UNCHANGED <<sched, gui>>

\* ---- get_file_stats: {} for a path that does not exist (line 170); iterdir
\* raises NotADirectoryError on a regular file (line 179)
GetFileStats(path) ==
    /\ pc = "idle"
    /\ pc' = IF path = "file" THEN "report_raised" ELSE "reported"
    /\ run' = [NoRun EXCEPT !.stats_path = path,
                            !.file_stats = IF path = "dir"
                                           THEN FileStatsOf(directory, rules)
                                           ELSE NoFileStats]
    /\ UNCHANGED <<rules, backup_before_organize, progress_callback, directory, nextId,
                   dry_run, files, index, total_files, stats>>
    /\ UNCHANGED backup_vars
    /\ UNCHANGED cfg
    /\ UNCHANGED <<sched, gui>>

\* ---- organize_directory, lines 46-64: reset the statistics, validate the
\* path, decide on the backup
OrganizeDirectory(dry, path) ==
    /\ Idle
    /\ stats' = NoStats
    /\ dry_run' = dry
    /\ run' = [NoRun EXCEPT !.snap = directory,
                            !.second = CleanRealRun,
                            !.dry_ref = IF CleanDryRun /\ ~dry
                                        THEN stats.files_moved ELSE -1,
                            !.backup = backup_before_organize,
                            !.path = path,
                            !.previewed = (pc = "previewed" /\ run.previewed),
                            !.preview = IF pc = "previewed" /\ run.previewed
                                        THEN run.preview ELSE {}]
    /\ index' = 0
    /\ IF ~IsDirectory(path)
       THEN \* ValueError, line 57
            /\ pc' = "raised"
            /\ files' = {}
            /\ total_files' = 0
       ELSE IF NeedsBackup(backup_before_organize, dry)
       THEN /\ pc' = "backup"
            /\ files' = {}
            /\ total_files' = 0
       ELSE \* _process_directory, lines 86-87
            /\ pc' = "process"
            /\ files' = ListFiles(directory)
            /\ total_files' = Cardinality(ListFiles(directory))
    /\ UNCHANGED <<rules, backup_before_organize, progress_callback, directory, nextId>>
    /\ UNCHANGED backup_vars
    /\ UNCHANGED cfg
    /\ UNCHANGED <<sched, gui>>

\* ---- _create_backup: BackupManager.create_backup returns or raises
CreateBackup(created) ==
    /\ pc = "backup"
    /\ run' = [run EXCEPT !.backup_calls = @ + 1,
                          !.backup_ok = created,
                          !.backup_before = (directory = run.snap)]
    /\ pc' = AfterBackup(created)
    /\ IF pc' = "process"
       THEN /\ files' = ListFiles(directory)
            /\ total_files' = Cardinality(ListFiles(directory))
       ELSE UNCHANGED <<files, total_files>>
    /\ UNCHANGED <<rules, backup_before_organize, progress_callback, directory, nextId,
                   dry_run, index, stats>>
    /\ UNCHANGED backup_vars
    /\ UNCHANGED cfg
    /\ UNCHANGED <<sched, gui>>

\* (mutant) the iteration does not count the file as processed
CountNothing(st) == st

\* line 91: the first statement of the iteration counts the file
CountProcessed(st) == [st EXCEPT !.files_processed = @ + 1]

\* ---- one iteration of the loop of _process_directory, lines 89-113.
\* iterdir yields the files in an order the filesystem chooses: the next file
\* is any of those not yet visited
ProcessFile(file, caller_raises, io) ==
    /\ pc = "process"
    /\ file \in files
    /\ files' = files \ {file}
    /\ index' = index + 1
    /\ LET st1 == CountProcessed(stats)
           m == FindMatchingRule(rules, file.name)
           moved == MoveFile(directory, file, rules[m], dry_run, io)
           \* lines 94-95: the callback, when there is one, is called first
           run1 == IF progress_callback = "none" THEN run
                   ELSE [run EXCEPT !.calls =
                            Append(@, ProgressArgs(index, total_files, file.name))]
       IN  IF CallbackRaises(progress_callback, caller_raises)
           THEN \* except Exception, lines 111-113
                /\ stats' = [st1 EXCEPT !.errors = @ + 1]
                /\ run' = [run1 EXCEPT !.cb_raised = @ + 1]
                /\ UNCHANGED directory
           ELSE IF m = 0 \/ ~rules[m].enabled
           THEN \* lines 99-102
                /\ stats' = [st1 EXCEPT !.files_skipped = @ + 1]
                /\ run' = run1
                /\ UNCHANGED directory
           ELSE IF moved.ok
           THEN /\ stats' = [st1 EXCEPT !.files_moved = @ + 1]
                /\ directory' = moved.dir
                /\ run' = [run1 EXCEPT !.moved = @ \cup {PreviewEntry(file, rules[m])}]
           ELSE /\ stats' = [st1 EXCEPT !.files_skipped = @ + 1]
                /\ directory' = moved.dir
                /\ run' = [run1 EXCEPT
                              !.failed = @ \cup {PreviewEntry(file, rules[m])},
                              !.failed_moves = @ + 1,
                              !.io_failed = IF Blocked(directory, rules[m]) \/ dry_run
                                            THEN @ ELSE @ + 1]
    /\ UNCHANGED <<rules, backup_before_organize, progress_callback, nextId, pc,
                   dry_run, total_files>>
    /\ UNCHANGED backup_vars
    /\ UNCHANGED cfg
    /\ UNCHANGED <<sched, gui>>

\* ---- organize_directory, lines 69-72: the loop is over, return the stats
Finish ==
    /\ pc = "process"
    /\ files = {}
    /\ pc' = "done"
    /\ UNCHANGED <<rules, backup_before_organize, progress_callback, directory, nextId,
                   dry_run, files, index, total_files, stats, run>>
    /\ UNCHANGED backup_vars
    /\ UNCHANGED cfg
    /\ UNCHANGED <<sched, gui>>

\* ---- the caller has the result (the statistics or the exception) and the
\* application is at rest; nothing reads self.stats before the next call
\* resets it (line 46)
Return ==
    /\ pc \in {"done", "raised", "previewed", "preview_raised",
               "reported", "report_raised"}
    /\ pc' = "idle"
    /\ stats' = NoStats
    /\ run' = NoRun
    /\ dry_run' = FALSE
    /\ index' = 0
    /\ total_files' = 0
    /\ files' = {}
    /\ UNCHANGED <<rules, backup_before_organize, progress_callback, directory, nextId>>
    /\ UNCHANGED backup_vars
    /\ UNCHANGED cfg
    /\ UNCHANGED <<sched, gui>>

\* the engine on every rule list of at most two rules, files dropped in
\* between the calls
Next ==
    \/ \E name \in DropNames : AddFile(name)
    \/ \E flag \in BOOLEAN : UpdateConfig(flag)
    \/ \E path \in PathKinds : PreviewOrganization(path)
    \/ \E dry \in BOOLEAN, path \in PathKinds : OrganizeDirectory(dry, path)
    \/ \E created \in BOOLEAN : CreateBackup(created)
    \/ \E file \in files, caller_raises \in BOOLEAN, io \in IOOutcomes :
          ProcessFile(file, caller_raises, io)
    \/ Finish
    \/ Return

Spec == Init /\ [][Next]_vars

\* the engine on a directory of two files while the rule list is built up and
\* taken down, in every order, by add_organization_rule and
\* remove_organization_rule
InitRules ==
    /\ backup_dir = EmptyBackupDir
    /\ clock = 0
    /\ bm = NoCall
    /\ rules = <<>>
    /\ backup_before_organize = FALSE
    /\ progress_callback = "none"
    /\ directory = [EmptyDir EXCEPT !.files = {[name |-> Name("a", ".png"), id |-> 1],
                                              [name |-> Name("c", ".TXT"), id |-> 2]}]
    /\ nextId = 3
    /\ pc = "idle"
    /\ dry_run = FALSE
    /\ files = {}
    /\ index = 0
    /\ total_files = 0
    /\ stats = NoStats
    /\ run = NoRun
    /\ cfg = ConfigHistory(rules)
    /\ sched = NoScheduler(FALSE)
    /\ gui = NoWindow

NextRules ==
    \/ \E rule \in RuleUniverse : AddOrganizationRule(rule)
    \/ \E rule \in RuleUniverse : RemoveOrganizationRule(rule.name)
    \/ \E path \in PathKinds : GetFileStats(path)
    \/ \E dry \in BOOLEAN, path \in PathKinds : OrganizeDirectory(dry, path)
    \/ \E file \in files, caller_raises \in BOOLEAN, io \in IOOutcomes :
          ProcessFile(file, caller_raises, io)
    \/ Finish
    \/ Return

SpecRules == InitRules /\ [][NextRules]_vars

\* the rules the configuration is given through its rule methods: those of
\* the engine and one whose name is empty
ConfigRules == RuleUniverse \cup {Rule("", <<".png">>, "Images", TRUE)}

\* a configuration whose rule list is empty
InitConfig ==
    /\ backup_dir = EmptyBackupDir
    /\ clock = 0
    /\ bm = NoCall
    /\ rules = <<>>
    /\ backup_before_organize = FALSE
    /\ progress_callback = "none"
    /\ directory = EmptyDir
    /\ nextId = 1
    /\ pc = "idle"
    /\ dry_run = FALSE
    /\ files = {}
    /\ index = 0
    /\ total_files = 0
    /\ stats = NoStats
    /\ run = NoRun
    /\ cfg = ConfigHistory(rules)
    /\ sched = NoScheduler(FALSE)
    /\ gui = NoWindow

NextConfig ==
    \/ \E rule \in ConfigRules : AddOrganizationRule(rule)
    \/ \E rule \in ConfigRules : RemoveOrganizationRule(rule.name)
    \/ \E rule \in ConfigRules : GetOrganizationRule(rule.name)

SpecConfig == InitConfig /\ [][NextConfig]_vars

\* ---- time passes between two calls
Tick ==
    /\ clock < MaxClock
    /\ clock' = clock + 1
    /\ UNCHANGED <<backup_dir, bm, directory>>
    /\ UNCHANGED organizer_vars
    /\ UNCHANGED cfg
    /\ UNCHANGED <<sched, gui>>

\* ---- BackupManager.create_backup(source_path, backup_name): the source is
\* the directory, a path that does not exist, or the direct file `file`;
\* backup_name is the name given, or None (default)
create_backup(path, file, given, default, fail) ==
    LET name == IF default THEN DefaultName(clock) ELSE given
        entries == IF path = "file" THEN ArchiveOfFile(file)
                   ELSE ArchiveOfDirectory(directory)
        type == IF path = "file" THEN "file" ELSE "directory"
        source == IF path = "file" THEN [EmptyDir EXCEPT !.files = {file}]
                  ELSE directory
        call == [NoCall EXCEPT !.op = "create", !.name = name, !.default = default,
                               !.before = backup_dir]
    IN  /\ clock < MaxClock
        /\ clock' = clock + 1
        /\ IF path = "missing"
           THEN \* FileNotFoundError, line 36
                /\ bm' = [call EXCEPT !.raised = TRUE]
                /\ UNCHANGED backup_dir
           ELSE /\ backup_dir' = CreateBackupResult(backup_dir, name, entries, source,
                                                    type, clock, fail)
                /\ bm' = [call EXCEPT !.started = TRUE, !.raised = (fail # "none")]
        /\ UNCHANGED directory
        /\ UNCHANGED organizer_vars
    /\ UNCHANGED cfg
    /\ UNCHANGED <<sched, gui>>

\* ---- BackupManager.restore_backup(backup_path, target_path) of the archive
\* <name>.zip into the target directory given
restore_backup(name, target) ==
    /\ IF ~HasZip(backup_dir, name)
       THEN \* FileNotFoundError, line 81
            bm' = [NoCall EXCEPT !.op = "restore", !.name = name, !.raised = TRUE,
                                 !.before = backup_dir, !.target = target,
                                 !.restored = target]
       ELSE bm' = [NoCall EXCEPT !.op = "restore", !.name = name,
                                 !.before = backup_dir, !.target = target,
                                 !.restored = ExtractAll(ZipOf(backup_dir, name).entries,
                                                         target)]
    /\ UNCHANGED <<backup_dir, clock, directory>>
    /\ UNCHANGED organizer_vars
    /\ UNCHANGED cfg
    /\ UNCHANGED <<sched, gui>>

\* ---- BackupManager.delete_backup(backup_name)
delete_backup(name, fail) ==
    LET r == DeleteBackupResult(backup_dir, name, fail)
    IN  /\ backup_dir' = r.dir
        /\ bm' = [NoCall EXCEPT !.op = "delete", !.name = name, !.raised = r.raised,
                                !.ok = r.ok, !.unlink_raised = r.unlink_raised,
                                !.before = backup_dir]
        /\ UNCHANGED <<clock, directory>>
        /\ UNCHANGED organizer_vars
    /\ UNCHANGED cfg
    /\ UNCHANGED <<sched, gui>>

\* ---- BackupManager.cleanup_old_backups(keep_count): order is the list
\* list_backups returns
cleanup_old_backups(keep_count, order, failing, mode) ==
    /\ order \in ListBackups(backup_dir)
    /\ LET r == IF Len(order) <= keep_count
                THEN [deleted_count |-> 0, failed |-> 0, dir |-> backup_dir]
                ELSE DeleteEach(backup_dir, OldBackups(order, keep_count), failing, mode)
       IN  /\ backup_dir' = r.dir
           /\ bm' = [NoCall EXCEPT !.op = "cleanup", !.keep = keep_count,
                                   !.count = r.deleted_count, !.failed = r.failed,
                                   !.before = backup_dir]
    /\ UNCHANGED <<clock, directory>>
    /\ UNCHANGED organizer_vars
    /\ UNCHANGED cfg
    /\ UNCHANGED <<sched, gui>>

\* lines 126-135: the entry of one archive in the list (its name and its
\* created_at)
BackupInfo(bd, name) == [backup_name |-> name, created_at |-> CreatedAt(bd, name)]

\* ---- BackupManager.list_backups(): order is the order it returns the
\* archives in
list_backups(order) ==
    /\ order \in ListBackups(backup_dir)
    /\ bm' = [NoCall EXCEPT !.op = "list", !.before = backup_dir,
                            !.listing = [i \in 1..Len(order) |->
                                            BackupInfo(backup_dir, order[i])]]
    /\ UNCHANGED <<backup_dir, clock, directory>>
    /\ UNCHANGED organizer_vars
    /\ UNCHANGED cfg
    /\ UNCHANGED <<sched, gui>>

\* the keep_count values cleanup_old_backups is called with
KeepCounts == 0..2

\* the backup manager on a directory that holds a.png and, in its folder
\* Images, another a.png; a file may still be dropped in
InitBackup ==
    /\ backup_dir = EmptyBackupDir
    /\ clock = 0
    /\ bm = NoCall
    /\ rules = <<Images(TRUE)>>
    /\ backup_before_organize = TRUE
    /\ progress_callback = "none"
    /\ directory = [files |-> {[name |-> Name("a", ".png"), id |-> 1]},
                    dirs |-> {"Images"},
                    sub |-> [d \in Folders |->
                               IF d = "Images" THEN {[name |-> Name("a", ".png"), id |-> 2]}
                               ELSE {}]]
    /\ nextId = 3
    /\ pc = "idle"
    /\ dry_run = FALSE
    /\ files = {}
    /\ index = 0
    /\ total_files = 0
    /\ stats = NoStats
    /\ run = NoRun
    /\ cfg = ConfigHistory(rules)
    /\ sched = NoScheduler(FALSE)
    /\ gui = NoWindow

NextBackup ==
    \/ AddFile(Name("c", ".TXT"))
    \/ Tick
    \/ \E path \in PathKinds, file \in directory.files, given \in GivenNames,
          default \in BOOLEAN, fail \in CreateFailures :
          create_backup(path, file, given, default, fail)
    \/ \E name \in BackupNames, target \in RestoreTargets : restore_backup(name, target)
    \/ \E name \in BackupNames, fail \in DeleteFailures : delete_backup(name, fail)
    \/ \E keep_count \in KeepCounts, order \in ListBackups(backup_dir),
          failing \in SUBSET ZipNames(backup_dir), mode \in DeleteFailures \ {"none"} :
          cleanup_old_backups(keep_count, order, failing, mode)

SpecBackup == InitBackup /\ [][NextBackup]_vars

\* an archive whose metadata was never written (the process was killed
\* between lines 53 and 66) or is not readable JSON
Leftover(name, readable_metadata) ==
    [zips |-> {[name |-> name, entries |-> {}, of |-> EmptyDir, type |-> "directory",
                made |-> 0]},
     metas |-> IF readable_metadata = "malformed"
               THEN {[name |-> name, created_at |-> -1, readable |-> FALSE]}
               ELSE {}]

\* the backup manager started on a backup directory that an earlier process
\* left with such an archive
InitList ==
    /\ backup_dir \in { Leftover(Given("x"), r) : r \in {"missing", "malformed"} }
    /\ clock = 1
    /\ bm = NoCall
    /\ rules = <<Images(TRUE)>>
    /\ backup_before_organize = TRUE
    /\ progress_callback = "none"
    /\ directory = [EmptyDir EXCEPT !.files = {[name |-> Name("a", ".png"), id |-> 1]}]
    /\ nextId = MaxFiles + 1
    /\ pc = "idle"
    /\ dry_run = FALSE
    /\ files = {}
    /\ index = 0
    /\ total_files = 0
    /\ stats = NoStats
    /\ run = NoRun
    /\ cfg = ConfigHistory(rules)
    /\ sched = NoScheduler(FALSE)
    /\ gui = NoWindow

NextList ==
    \/ Tick
    \/ \E path \in PathKinds, file \in directory.files, given \in GivenNames,
          default \in BOOLEAN, fail \in CreateFailures :
          create_backup(path, file, given, default, fail)
    \/ \E name \in BackupNames, fail \in DeleteFailures : delete_backup(name, fail)
    \/ \E order \in ListBackups(backup_dir) : list_backups(order)

SpecList == InitList /\ [][NextList]_vars

\* ================================================================ scheduler
\* everything but the scheduler
unscheduled_vars == <<organizer_vars, directory, backup_vars, cfg, gui>>

\* ---- Scheduler.start, lines 25-41
StartResult(s) ==
    IF s.running THEN s                          \* lines 27-29
    ELSE IF ~s.enabled THEN s                    \* lines 31-33
    ELSE [s EXCEPT !.jobs = @ + 1,               \* _setup_schedule
                   !.running = TRUE,
                   !.stop_event = FALSE,
                   !.threads = Append(@, NewThread)]

\* ---- Scheduler.stop, lines 43-55. join(timeout=5) waits for self._thread,
\* the thread started last: a thread at the test of its while sees _running
\* false and ends; a thread in its sleep of 60 seconds ends when it wakes
\* within the timeout (woke) and is otherwise left asleep.
StopResult(s, woke) ==
    IF ~s.running THEN s                         \* lines 45-46
    ELSE LET n == Len(s.threads)
             Joined(t) == IF t.at = "check" \/ (t.at = "sleep" /\ woke)
                          THEN [t EXCEPT !.at = "stopped"]
                          ELSE t
             Stale(t) == IF t.at = "stopped" THEN t ELSE [t EXCEPT !.stale = TRUE]
         IN  [s EXCEPT !.running = FALSE,
                       !.stop_event = TRUE,
                       !.jobs = 0,               \* schedule.clear()
                       !.threads = [i \in 1..n |->
                                       Stale(IF i = n THEN Joined(s.threads[i])
                                             ELSE s.threads[i])]]

start ==
    /\ Len(sched.threads) < MaxThreads
    /\ sched' = StartResult(sched)
    /\ UNCHANGED unscheduled_vars

stop(woke) ==
    /\ sched' = StopResult(sched, woke)
    /\ UNCHANGED unscheduled_vars

\* ---- Scheduler.update_schedule, lines 147-154
update_schedule(enabled, woke) ==
    /\ Len(sched.threads) < MaxThreads
    /\ LET stopped == [StopResult(sched, woke) EXCEPT !.enabled = enabled]
       IN  sched' = IF enabled THEN StartResult(stopped) ELSE stopped
    /\ UNCHANGED unscheduled_vars

\* ---- Scheduler._run_scheduler, lines 87-99, one step of the loop thread i:
\* the test of the while, then run_pending and the sleep; or the wake-up
\* that leads back to the test
_run_scheduler(i) ==
    /\ i \in 1..Len(sched.threads)
    /\ LET t == sched.threads[i]
       IN  \/ /\ t.at = "check"
              /\ sched' = [sched EXCEPT !.threads[i] =
                              IF sched.running /\ ~sched.stop_event
                              THEN [t EXCEPT !.at = "sleep",
                                             !.polled_stale = @ \/ t.stale]
                              ELSE [t EXCEPT !.at = "stopped"]]
           \/ /\ t.at = "sleep"
              /\ sched' = [sched EXCEPT !.threads[i].at = "check"]
    /\ UNCHANGED unscheduled_vars

InitScheduler ==
    /\ backup_dir = EmptyBackupDir
    /\ clock = 0
    /\ bm = NoCall
    /\ rules = <<>>
    /\ backup_before_organize = FALSE
    /\ progress_callback = "none"
    /\ directory = EmptyDir
    /\ nextId = 1
    /\ pc = "idle"
    /\ dry_run = FALSE
    /\ files = {}
    /\ index = 0
    /\ total_files = 0
    /\ stats = NoStats
    /\ run = NoRun
    /\ cfg = ConfigHistory(rules)
    /\ sched \in { NoScheduler(enabled) : enabled \in BOOLEAN }
    /\ gui = NoWindow

NextScheduler ==
    \/ start
    \/ \E woke \in BOOLEAN : stop(woke)
    \/ \E enabled, woke \in BOOLEAN : update_schedule(enabled, woke)
    \/ \E i \in 1..MaxThreads : _run_scheduler(i)

SpecScheduler == InitScheduler /\ [][NextScheduler]_vars

\* ============================================================ rules manager
\* everything but the window and the configuration it edits
unmanaged_vars == <<backup_before_organize, progress_callback, directory, nextId, pc,
                    dry_run, files, index, total_files, stats, run,
                    backup_vars, sched>>

\* ---- _set_editor_mode, lines 585-597: only the mode "none" deletes the
\* attribute current_rule_name
SetEditorMode(g, mode) ==
    [g EXCEPT !.mode = mode,
              !.current_rule_name = IF mode \in {"add", "edit"} THEN @ ELSE NoAttribute]

\* ---- _on_rule_select, lines 431-439: the user selects a row of the tree
\* (the tree shows the rules in the order of the configuration) or none
_on_rule_select(row) ==
    /\ row \in 0..Len(rules)
    /\ gui' = [gui EXCEPT !.selection = row, !.op = "select"]
    /\ UNCHANGED <<rules, cfg>>
    /\ UNCHANGED unmanaged_vars

\* ---- _add_rule, lines 441-445
_add_rule ==
    /\ gui' = [SetEditorMode(gui, "add") EXCEPT !.op = "add"]
    /\ UNCHANGED <<rules, cfg>>
    /\ UNCHANGED unmanaged_vars

\* ---- _edit_rule, lines 467-490
_edit_rule ==
    /\ IF gui.selection = 0
       THEN gui' = [gui EXCEPT !.op = "edit"] /\ UNCHANGED cfg   \* lines 470-471
       ELSE LET rule_name == rules[gui.selection].name
            IN  /\ cfg' = AfterGet(cfg, rules, rule_name)
                /\ gui' = [SetEditorMode(gui, "edit") EXCEPT
                              !.current_rule_name = rule_name, !.op = "edit"]
    /\ UNCHANGED rules
    /\ UNCHANGED unmanaged_vars

\* ---- _delete_rule, lines 492-509; _load_rules rebuilds the tree, which
\* drops the selection
_delete_rule(confirmed) ==
    /\ IF gui.selection = 0 \/ ~confirmed
       THEN gui' = [gui EXCEPT !.op = "delete"] /\ UNCHANGED <<rules, cfg>>
       ELSE LET rule_name == rules[gui.selection].name
            IN  /\ rules' = SelectSeq(rules, LAMBDA r : r.name # rule_name)
                /\ cfg' = AfterRemove(cfg, rules, rule_name)
                /\ gui' = [SetEditorMode(gui, "none") EXCEPT
                              !.selection = 0, !.op = "delete"]
    /\ UNCHANGED unmanaged_vars

\* ---- _save_rule, lines 511-570, with the fields of the editor holding the
\* rule the user typed; the Save button is enabled in the modes add and edit
_save_rule(rule) ==
    /\ gui.mode # "none"
    /\ LET name == rule.name
           has == gui.current_rule_name # NoAttribute
           checked == ~has \/ gui.current_rule_name # name          \* lines 548-555
           duplicate == checked /\ GetOrganizationRuleResult(rules, name) # 0
           c1 == IF checked THEN AfterGet(cfg, rules, name) ELSE cfg
           updates == has /\ gui.current_rule_name # ""              \* line 558
           rules1 == IF updates
                     THEN SelectSeq(rules, LAMBDA r : r.name # gui.current_rule_name)
                     ELSE rules
           c2 == IF updates THEN AfterRemove(c1, rules, gui.current_rule_name) ELSE c1
       IN  IF name = ""                                              \* lines 518-520
           THEN /\ gui' = [gui EXCEPT !.op = "save", !.saved = FALSE,
                                      !.saved_in = gui.mode, !.before = rules]
                /\ UNCHANGED <<rules, cfg>>
           ELSE IF duplicate
           THEN /\ gui' = [gui EXCEPT !.op = "save", !.saved = FALSE,
                                      !.saved_in = gui.mode, !.before = rules]
                /\ cfg' = c1
                /\ UNCHANGED rules
           ELSE /\ Len(rules1) < MaxRules
                /\ rules' = Append(rules1, rule)
                /\ cfg' = AfterAdd(c2, rules1, rule)
                /\ gui' = [SetEditorMode(gui, "none") EXCEPT
                              !.selection = 0, !.op = "save", !.saved = TRUE,
                              !.saved_in = gui.mode, !.before = rules]
    /\ UNCHANGED unmanaged_vars

\* ---- _cancel_edit, lines 572-575; the Cancel button is enabled in the
\* modes add and edit
_cancel_edit ==
    /\ gui.mode # "none"
    /\ gui' = [SetEditorMode(gui, "none") EXCEPT !.op = "cancel"]
    /\ UNCHANGED <<rules, cfg>>
    /\ UNCHANGED unmanaged_vars

\* the window opened on a configuration without rules
InitManager ==
    /\ backup_dir = EmptyBackupDir
    /\ clock = 0
    /\ bm = NoCall
    /\ rules = <<>>
    /\ backup_before_organize = FALSE
    /\ progress_callback = "none"
    /\ directory = EmptyDir
    /\ nextId = 1
    /\ pc = "idle"
    /\ dry_run = FALSE
    /\ files = {}
    /\ index = 0
    /\ total_files = 0
    /\ stats = NoStats
    /\ run = NoRun
    /\ cfg = ConfigHistory(rules)
    /\ sched = NoScheduler(FALSE)
    /\ gui = NoWindow

NextManager ==
    \/ \E row \in 0..MaxRules : _on_rule_select(row)
    \/ _add_rule
    \/ _edit_rule
    \/ \E confirmed \in BOOLEAN : _delete_rule(confirmed)
    \/ \E rule \in ConfigRules : _save_rule(rule)
    \/ _cancel_edit

SpecManager == InitManager /\ [][NextManager]_vars

\* ================================================================== claims
\* ---- vocabulary of the claims
IdsOf(entries) == { e.id : e \in entries }

\* the rule lists the extension of the name, compared case-insensitively
ListsExt(rule, name) ==
    \E j \in 1..Len(rule.file_extensions) :
        Lower(rule.file_extensions[j]) = Lower(name.ext)

\* the positions of the enabled rules that list the extension of the name
EnabledListing(name) == { i \in 1..Len(rules) : rules[i].enabled /\ ListsExt(rules[i], name) }

\* the file, found as a direct file when the call began, now lies in the folder
InFolder(file, folder) == file.id \in IdsOf(directory.sub[folder])

\* a real run has returned, and nothing raised while it processed the files
RealRunDoneClean == pc = "done" /\ ~dry_run /\ run.failed_moves = 0 /\ run.cb_raised = 0

\* C1: in a rule list where two or more enabled rules list an extension, a
\* real run (nothing raising) moves every direct file with that extension
\* into the target folder of the first of these rules and into no later
\* rule's folder, whatever the order the rules were added in.
C1_FirstEnabledRuleReceives ==
    RealRunDoneClean =>
        \A f \in run.snap.files :
            Cardinality(EnabledListing(f.name)) >= 2 =>
                LET first == Min(EnabledListing(f.name))
                IN  /\ InFolder(f, rules[first].target_folder)
                    /\ \A i \in EnabledListing(f.name) :
                          rules[i].target_folder # rules[first].target_folder
                              => ~InFolder(f, rules[i].target_folder)

\* C2: the rule a real run applies to a file is the first enabled rule that
\* lists its extension (case-insensitively): the file ends in that rule's
\* folder even when a disabled rule listing the extension comes before it, and
\* a file no enabled rule lists stays where it is.
C2_FirstEnabledRuleApplied ==
    RealRunDoneClean =>
        \A f \in run.snap.files :
            IF EnabledListing(f.name) # {}
            THEN InFolder(f, rules[Min(EnabledListing(f.name))].target_folder)
            ELSE f \in directory.files

\* <stem>_<k><ext>: the name with k appended to the suffixes of its stem
Suffixed(name, k) == [name EXCEPT !.sfx = Append(@, k)]

\* every file ever dropped in is somewhere in the tree
AllIds(d) == IdsOf(d.files) \cup UNION { IdsOf(d.sub[x]) : x \in Folders }

\* C3: no step of a run overwrites or removes a file of a target folder: every
\* entry of a folder stays, under its name; a file that arrives keeps its name
\* when that name is free there and is otherwise stored as <stem>_<k><ext>, k
\* the smallest integer >= 1 whose name is free; so every file dropped in still
\* exists and the names within a folder are distinct.
C3_MoveNeverOverwrites ==
    [][ /\ \A d \in Folders :
            /\ directory.sub[d] \subseteq directory'.sub[d]
            /\ \A e \in directory'.sub[d] \ directory.sub[d] :
                  \E f \in directory.files :
                      /\ f.id = e.id
                      /\ LET taken == NamesOf(directory.sub[d])
                         IN  IF f.name \notin taken
                             THEN e.name = f.name
                             ELSE \E k \in 1..(Cardinality(taken) + 1) :
                                      /\ e.name = Suffixed(f.name, k)
                                      /\ e.name \notin taken
                                      /\ \A j \in 1..(k - 1) : Suffixed(f.name, j) \in taken
            /\ Cardinality(NamesOf(directory'.sub[d])) = Cardinality(directory'.sub[d])
        /\ AllIds(directory') = 1..(nextId' - 1)
      ]_vars

\* three files named a.png were organized into Images: a.png, a_1.png, a_2.png
C3_Witness ==
    \E e1, e2, e3 \in directory.sub["Images"] :
        /\ e1.name = Name("a", ".png")
        /\ e2.name = Suffixed(e1.name, 1)
        /\ e3.name = Suffixed(e1.name, 2)

\* C4: a dry run leaves the directory tree as it found it: no file moved,
\* renamed or deleted, no target folder created.
C4_DryRunChangesNothing == dry_run => directory = run.snap

\* a dry run has returned and counted a file as moved
C4_Witness == pc = "done" /\ dry_run /\ stats.files_moved > 0

\* C5: when the backup flag is set and create_backup raises, the real run
\* raises to its caller and the directory is as it was before the call.
C5_BackupFailureAborts ==
    (run.backup_calls > 0 /\ ~run.backup_ok) =>
        (pc = "raised" /\ directory = run.snap /\ stats.files_processed = 0)

\* the backup failed on a directory that holds a file an enabled rule would move
C5_Witness ==
    /\ pc = "raised" /\ run.backup /\ run.backup_calls = 1 /\ ~run.backup_ok
    /\ \E f \in directory.files :
          LET m == FindMatchingRule(rules, f.name) IN m # 0 /\ rules[m].enabled

\* C6: every file whose processing raised (the callback, mkdir, the move) is
\* counted in errors, once, and neither as moved nor as skipped; the remaining
\* files are processed and the call returns.
C6_EveryFailureIsAnError ==
    pc \in {"process", "done"} =>
        /\ stats.errors = run.failed_moves + run.cb_raised
        /\ stats.files_moved + stats.files_skipped + stats.errors = stats.files_processed
        /\ pc = "done" => stats.files_processed = total_files

\* C7: after a real run in which nothing raised, every direct file whose
\* extension has a matching rule (the first enabled rule listing it) is in that
\* rule's folder and no longer a direct file, every other direct file is in
\* place, and the statistics are processed = direct files, moved = matched
\* files, skipped = unmatched files, errors = 0.
C7_MatchedFilesAreMoved ==
    RealRunDoneClean =>
        LET matched == { f \in run.snap.files : EnabledListing(f.name) # {} }
        IN  /\ \A f \in matched :
                  /\ InFolder(f, rules[Min(EnabledListing(f.name))].target_folder)
                  /\ f \notin directory.files
            /\ \A f \in run.snap.files \ matched : f \in directory.files
            /\ stats = [files_processed |-> Cardinality(run.snap.files),
                        files_moved |-> Cardinality(matched),
                        files_skipped |-> Cardinality(run.snap.files \ matched),
                        errors |-> 0]

\* a real run has returned right after a dry run of the same directory
\* state, and the callback raised in neither
DryThenRealDone == pc = "done" /\ ~dry_run /\ run.dry_ref # -1 /\ run.cb_raised = 0

\* C8 as stated: the files_moved of the dry run equals the files_moved of the
\* real run on the same directory state (here even with no failure of the
\* filesystem in the real run).
C8_DryCountEqualsRealCount ==
    (DryThenRealDone /\ run.io_failed = 0) => stats.files_moved = run.dry_ref

\* C8, amended: the files_moved of the dry run equals the files_moved of the
\* real run on the same directory state plus the number of files whose move
\* raised in the real run; the two are equal when no move fails.
C8_DryCountIsRealPlusFailed ==
    DryThenRealDone => run.dry_ref = stats.files_moved + run.failed_moves

\* a dry run counted two moves, the real run after it moved one and failed one
C8_Witness ==
    DryThenRealDone /\ run.dry_ref = 2 /\ stats.files_moved = 1 /\ run.failed_moves = 1

\* C9: a call that directly follows a real run in which nothing raised, on the
\* directory as that run left it and under the same rules, moves no file and
\* leaves the tree as it is.
C9_SecondRunMovesNothing ==
    run.second => (stats.files_moved = 0 /\ directory = run.snap)

\* the second run has returned; the first had moved a file into a folder and
\* left a direct file in place
C9_Witness ==
    /\ run.second /\ pc = "done" /\ ~dry_run /\ total_files > 0
    /\ \E d \in Folders : run.snap.sub[d] # {}

\* C10: with the backup flag set, a real run calls create_backup exactly once,
\* while the directory is still as the call found it, before any folder is
\* made or file moved; a dry run never calls it.
C10_BackupOnceBeforeAnyMove ==
    /\ dry_run => run.backup_calls = 0
    /\ run.backup_calls <= 1
    /\ pc = "backup" => directory = run.snap
    /\ (run.backup /\ ~dry_run /\ pc \in {"process", "done"}) =>
           (run.backup_calls = 1 /\ run.backup_ok /\ run.backup_before)
    /\ directory # run.snap /\ run.backup => run.backup_calls = 1

\* a real run with the backup flag set has moved a file and returned
C10_Witness ==
    pc = "done" /\ ~dry_run /\ run.backup /\ run.backup_calls = 1 /\ stats.files_moved > 0

\* C11: a run considers only the direct files of the directory: the files it
\* lists and counts are the direct files it found, and every folder that
\* existed before the call is still there with every file it held, under the
\* same name; a folder only ever gains files.
C11_OnlyDirectFilesConsidered ==
    pc \in {"process", "done"} =>
        /\ total_files = Cardinality(run.snap.files)
        /\ files \subseteq run.snap.files
        /\ stats.files_processed <= Cardinality(run.snap.files)
        /\ run.snap.dirs \subseteq directory.dirs
        /\ \A d \in Folders : run.snap.sub[d] \subseteq directory.sub[d]

\* a real run has moved a direct file and returned, while a folder that
\* existed before the call holds a file that an enabled rule would send to
\* another folder
C11_Witness ==
    /\ pc = "done" /\ ~dry_run /\ stats.files_moved > 0
    /\ \E d \in run.snap.dirs : \E e \in run.snap.sub[d] :
          LET m == FindMatchingRule(rules, e.name)
          IN  m # 0 /\ rules[m].enabled /\ rules[m].target_folder # d

\* C12: a call whose path does not exist or is not a directory raises at
\* once: create_backup is not called, no file is processed and the tree is as
\* it was.
C12_InvalidPathRaisesAtOnce ==
    run.path # "dir" =>
        /\ pc = "raised"
        /\ run.backup_calls = 0
        /\ stats.files_processed = 0
        /\ directory = run.snap

\* a real call on a regular file has raised, with the backup flag set and a
\* rule that would move a file of the directory
C12_Witness ==
    /\ pc = "raised" /\ run.path = "file" /\ ~dry_run /\ run.backup
    /\ \E f \in directory.files :
          LET m == FindMatchingRule(rules, f.name) IN m # 0 /\ rules[m].enabled

\* a real run has returned right after preview_organization of the same
\* directory state, and the callback did not raise in it
PreviewThenRealDone == pc = "done" /\ ~dry_run /\ run.previewed /\ run.cb_raised = 0

\* C13 as stated: the files preview_organization lists, each with its rule
\* name and target folder, are exactly the files the real run on the same
\* directory state and rule list moves (here even with no failure of the
\* filesystem in the run).
C13_PreviewIsWhatTheRunMoves ==
    (PreviewThenRealDone /\ run.io_failed = 0) => run.preview = run.moved

\* C13, amended: the files preview_organization lists, each with its rule
\* name and target folder, are exactly the files the real run tries to move
\* under that rule: those it moves together with those whose move fails.
C13_PreviewIsWhatTheRunAttempts ==
    PreviewThenRealDone =>
        /\ run.preview = run.moved \cup run.failed
        /\ run.moved \cap run.failed = {}

\* the preview listed two files; the run moved one and failed to move the other
C13_Witness ==
    /\ PreviewThenRealDone
    /\ Cardinality(run.preview) = 2
    /\ Cardinality(run.moved) = 1 /\ Cardinality(run.failed) = 1

FilesUnder(d) ==
    { [path |-> <<f.name>>, id |-> f.id] : f \in d.files }
    \cup UNION { { [path |-> <<FolderEntry(x), e.name>>, id |-> e.id] : e \in d.sub[x] } :
                   x \in Folders }

\* restore_backup has extracted the archive of a directory into an empty target
RestoredIntoEmpty ==
    /\ bm.op = "restore" /\ ~bm.raised /\ bm.target = {}
    /\ ZipOf(bm.before, bm.name).type = "directory"

\* C15: restoring the archive that create_backup made of a directory into an
\* empty target yields exactly the files that were under the directory
\* (recursively) when the backup was made, each at its relative path and with
\* its content.
C15_RestoreYieldsTheSourceFiles ==
    RestoredIntoEmpty => bm.restored = FilesUnder(ZipOf(bm.before, bm.name).of)

\* the restored set holds a file of a sub-folder, and the directory has
\* gained a file since the backup
C15_Witness ==
    /\ RestoredIntoEmpty
    /\ \E e \in bm.restored : Len(e.path) = 2
    /\ ZipOf(bm.before, bm.name).of # directory

\* cleanup_old_backups(N) has returned, on a backup directory that held more
\* than N backups
CleanedUp == bm.op = "cleanup" /\ Cardinality(bm.before.zips) > bm.keep

\* exactly N backups are left, untouched, each created later than every
\* backup removed
KeptTheNewest ==
    /\ Cardinality(backup_dir.zips) = bm.keep
    /\ backup_dir.zips \subseteq bm.before.zips
    /\ \A k \in ZipNames(backup_dir) :
          /\ HasMeta(backup_dir, k) /\ MetaOf(backup_dir, k) = MetaOf(bm.before, k)
          /\ \A r \in ZipNames(bm.before) \ ZipNames(backup_dir) :
                MetaOf(bm.before, k).created_at > MetaOf(bm.before, r).created_at

AllHaveMetadata(bd) ==
    \A z \in bd.zips : HasMeta(bd, z.name) /\ MetaOf(bd, z.name).readable

C17_ArchiveIffMetadata ==
    \A name \in BackupNames : HasZip(backup_dir, name) <=> HasMeta(backup_dir, name)

\* C18: when create_backup raises after it began to write, neither an archive
\* nor a metadata record of that backup name is in the backup directory.
C18_FailedCreateLeavesNothing ==
    (bm.op = "create" /\ bm.started /\ bm.raised) =>
        (~HasZip(backup_dir, bm.name) /\ ~HasMeta(backup_dir, bm.name))

\* C19: a create_backup without a name that returns has not replaced an
\* archive: no archive of the derived name was there before.
C19_DefaultNameIsFresh ==
    (bm.op = "create" /\ bm.default /\ ~bm.raised) => ~HasZip(bm.before, bm.name)

\* C20: delete_backup(name) does not raise; it returns true exactly when no
\* unlink failed, and then neither the archive nor the metadata of the name
\* is left; with neither there before it returns true and changes nothing;
\* the archives and metadata of the other names are as they were.
C20_DeleteNeverRaises ==
    bm.op = "delete" =>
        /\ ~bm.raised
        /\ bm.ok <=> ~bm.unlink_raised
        /\ bm.ok => (~HasZip(backup_dir, bm.name) /\ ~HasMeta(backup_dir, bm.name))
        /\ (~HasZip(bm.before, bm.name) /\ ~HasMeta(bm.before, bm.name)) =>
               (bm.ok /\ backup_dir = bm.before)
        /\ { z \in backup_dir.zips : z.name # bm.name }
               = { z \in bm.before.zips : z.name # bm.name }
        /\ { m \in backup_dir.metas : m.name # bm.name }
               = { m \in bm.before.metas : m.name # bm.name }

\* delete_backup has removed the archive and the metadata of one backup and
\* returned true while another backup is in the directory
C20_Witness ==
    /\ bm.op = "delete" /\ bm.ok
    /\ HasZip(bm.before, bm.name) /\ HasMeta(bm.before, bm.name)
    /\ backup_dir.zips # {}

\* list_backups has returned
Listed == bm.op = "list"

\* the list has one entry for every archive of the backup directory
OneEntryPerArchive ==
    /\ Len(bm.listing) = Cardinality(bm.before.zips)
    /\ { bm.listing[i].backup_name : i \in 1..Len(bm.listing) } = ZipNames(bm.before)

Removed == ZipNames(bm.before) \ ZipNames(backup_dir)

\* C22: cleanup_old_backups(keep_count) returns the number of backups it
\* removed from the backup directory; with no more than keep_count backups
\* there it removes nothing and returns 0.
C22_CleanupReturnsTheNumberRemoved ==
    bm.op = "cleanup" =>
        /\ bm.count = Cardinality(Removed)
        /\ Cardinality(bm.before.zips) <= bm.keep =>
               (bm.count = 0 /\ backup_dir = bm.before)

\* the name of the rule organize_directory applies to a file, "Uncategorized"
\* when it applies none
AppliedRuleName(f) ==
    LET m == FindMatchingRule(rules, f.name)
    IN  IF m # 0 /\ rules[m].enabled THEN rules[m].name ELSE "Uncategorized"

\* C23: get_file_stats counts each direct file under the name of the rule
\* organize_directory would apply to it, and under "Uncategorized" when no
\* rule would be applied (none lists the extension, or the rule found is
\* disabled); the counts sum to total_files.
C23_StatsCountByAppliedRule ==
    (pc = "reported" /\ run.stats_path = "dir") =>
        /\ run.file_stats.total_files = Cardinality(directory.files)
        /\ \A k \in StatKeys :
              run.file_stats.files_by_rule[k]
                 = Cardinality({ f \in directory.files : AppliedRuleName(f) = k })

\* C24: get_organization_rule(n) returns a rule, and one named n, exactly when
\* a rule named n was added and not removed since; right after
\* add_organization_rule of a rule named n it returns a rule, right after
\* remove_organization_rule(n) it returns None.
C24_GetFindsWhatWasAddedAndNotRemoved ==
    /\ cfg.op = "get" =>
          /\ cfg.result # 0 <=> cfg.name \in cfg.live
          /\ cfg.result # 0 => rules[cfg.result].name = cfg.name
    /\ cfg.op = "add" =>
          /\ GetOrganizationRuleResult(rules, cfg.name) # 0
          /\ rules[GetOrganizationRuleResult(rules, cfg.name)].name = cfg.name
    /\ cfg.op = "remove" => GetOrganizationRuleResult(rules, cfg.name) = 0

\* get_organization_rule has returned None for a name that is not in the
\* list while rules of another name, added before, are still in it
C24_Witness ==
    /\ cfg.op = "get" /\ cfg.result = 0 /\ cfg.name \notin cfg.live
    /\ \E i \in 1..Len(rules) : rules[i].name \notin {cfg.name, ""}

\* C25: no two rules of the configuration share a name, no rule has an empty
\* name, and remove_organization_rule of a name in the list removes exactly
\* one rule.
C25_RuleNamesUniqueAndNonEmpty ==
    /\ \A i, j \in 1..Len(rules) : rules[i].name = rules[j].name => i = j
    /\ \A i \in 1..Len(rules) : rules[i].name # ""
    /\ (cfg.op = "remove" /\ GetOrganizationRuleResult(cfg.before, cfg.name) # 0) =>
           Len(rules) = Len(cfg.before) - 1

\* the command line's organize command: handle_cli_command builds the
\* organizer with cli_progress_callback, a callback of two parameters
CliOrganizeDone == pc = "done" /\ ~dry_run /\ progress_callback = "two_arg"

\* C26: after the command line's organize command on a directory with files,
\* each matched by an enabled rule, and no I/O failure, every file is in its
\* rule's folder and the statistics show files_moved = number of files and
\* errors = 0, as through the API with a callback of three parameters.
C26_CliOrganizesLikeTheApi ==
    ( /\ CliOrganizeDone
      /\ run.snap.files # {}
      /\ run.io_failed = 0
      /\ \A f \in run.snap.files :
            LET m == FindMatchingRule(rules, f.name)
            IN  m # 0 /\ rules[m].enabled /\ ~Blocked(run.snap, rules[m]) ) =>
        /\ stats.files_moved = Cardinality(run.snap.files)
        /\ stats.errors = 0
        /\ \A f \in run.snap.files :
              InFolder(f, rules[FindMatchingRule(rules, f.name)].target_folder)

\* C27: between two iterations of the loop and when organize_directory
\* returns, files_processed = files_moved + files_skipped + errors, and it is
\* the number of files the loop has taken; at the return it is the number of
\* direct files enumerated.
C27_ProcessedIsMovedSkippedErrors ==
    pc \in {"process", "done"} =>
        /\ stats.files_processed = stats.files_moved + stats.files_skipped + stats.errors
        /\ stats.files_processed = index
        /\ stats.files_processed + Cardinality(files) = Cardinality(run.snap.files)
        /\ pc = "done" => stats.files_processed = Cardinality(run.snap.files)

\* a run has returned with a file moved, a file skipped and an error
C27_Witness ==
    /\ pc = "done"
    /\ stats.files_moved >= 1 /\ stats.files_skipped >= 1 /\ stats.errors >= 1

\* the loop threads that poll: in run_pending or the sleep after it, and not
\* merely asleep since before the stop() that ended them
Polling == { i \in 1..Len(sched.threads) :
               LET t == sched.threads[i]
               IN  t.at = "sleep" /\ (~t.stale \/ t.polled_stale) }

\* C28: after any sequence of start, stop and update_schedule, at most one
\* loop thread polls for pending jobs: a thread for which stop() has been
\* called never calls run_pending again, also when start() is called again
\* before it wakes from its sleep.
C28_AtMostOneLoopThreadPolls ==
    /\ Cardinality(Polling) <= 1
    /\ \A i \in 1..Len(sched.threads) : ~sched.threads[i].polled_stale

\* C29: in the rules manager, a save of a rule entered in add mode only
\* appends the new rule: the rules of before are all still there, in their
\* order, followed by the new one, whatever select, edit, add and cancel
\* actions came before.
C29_SaveInAddModeOnlyAppends ==
    (gui.op = "save" /\ gui.saved /\ gui.saved_in = "add") =>
        /\ Len(rules) = Len(gui.before) + 1
        /\ SubSeq(rules, 1, Len(gui.before)) = gui.before

\* the last two calls of the rule methods replaced a rule of the list:
\* remove_organization_rule(name), then add_organization_rule of a rule of
\* that name
Replaced ==
    /\ cfg.replaced
    /\ GetOrganizationRuleResult(cfg.replace_before, cfg.name) # 0

\* the positions of the enabled rules, other than the last, that list the
\* extension of the name
OtherEnabledListing(name) == EnabledListing(name) \ {Len(rules)}

\* C30: after remove_organization_rule(name) followed by
\* add_organization_rule(new_rule), the other rules are in their order of
\* before and the new rule is last; and a real run (nothing raising) moves
\* every file whose extension the new rule shares with another enabled rule
\* into the folder of that other rule.
C30_ReplacedRuleComesLast ==
    Replaced =>
        /\ rules = Append(SelectSeq(cfg.replace_before, LAMBDA r : r.name # cfg.name),
                          rules[Len(rules)])
        /\ rules[Len(rules)].name = cfg.name
        /\ RealRunDoneClean =>
              \A f \in run.snap.files :
                  (ListsExt(rules[Len(rules)], f.name) /\ OtherEnabledListing(f.name) # {}) =>
                      InFolder(f, rules[Min(OtherEnabledListing(f.name))].target_folder)

====
